---- MODULE Spec2Model ----
(***************************************************************************)
(* Content indexing and presentation pipeline of the code-craft blog:     *)
(* the shared Document Store `posts`, the helpers of src/lib/utils.ts and  *)
(* the request handlers Home, BlogPage, PostPage, generateMetadata and     *)
(* generateStaticParams.                                                   *)
(*                                                                         *)
(* JavaScript values are represented as follows.                           *)
(*   - a string is a sequence of one-character strings;                    *)
(*   - an optional value (undefined or x) is <<>> or <<x>>;                *)
(*   - a date is the rank of its timestamp (the code only compares dates); *)
(*   - title, description and body of the i-th loaded document are i.      *)
(* `occurrences` is the memory a slug normaliser could keep between calls  *)
(* (the occurrence counters of a GithubSlugger instance).                  *)
(* `mobileNav` is the state of the mobile navigation sheet: its open flag  *)
(* and the hrefs handed to router.push, oldest first.                      *)
(***************************************************************************)
EXTENDS Integers, Sequences, FiniteSets, TLC

VARIABLES posts, request, response, occurrences, mobileNav

vars == <<posts, request, response, occurrences, mobileNav>>

----------------------------------------------------------------------------
(* Bounds of the model. *)

MaxPosts == 3

MaxPagePosts == 7

MaxTagPosts == 2

MaxTags == 2

(* Longest label handed to the slug normaliser on its own. *)
MaxLabelLen == 3

(* Most navigations requested from the mobile sheet in one run. *)
MaxPushes == 3

----------------------------------------------------------------------------
(* Generic helpers. *)

None == <<>>

Some(x) == <<x>>

Min(a, b) == IF a < b THEN a ELSE b

Max(a, b) == IF a > b THEN a ELSE b

Range(s) == {s[i] : i \in 1..Len(s)}

Front(s) == SubSeq(s, 1, Len(s) - 1)

Last(s) == s[Len(s)]

Digits == {"0", "1", "2", "3", "4", "5", "6", "7", "8", "9"}

DigitVal(c) ==
  CASE c = "0" -> 0 [] c = "1" -> 1 [] c = "2" -> 2 [] c = "3" -> 3
    [] c = "4" -> 4 [] c = "5" -> 5 [] c = "6" -> 6 [] c = "7" -> 7
    [] c = "8" -> 8 [] c = "9" -> 9

IsDigits(s) == s # <<>> /\ \A i \in 1..Len(s) : s[i] \in Digits

RECURSIVE DecVal(_)
DecVal(s) == IF s = <<>> THEN 0 ELSE DecVal(Front(s)) * 10 + DigitVal(Last(s))

(* Array.prototype.slice(start, end): a negative index counts from the end. *)
RelIndex(i, len) == IF i < 0 THEN Max(len + i, 0) ELSE Min(i, len)

Slice(s, start, end) ==
  LET k == RelIndex(start, Len(s))
      f == RelIndex(end, Len(s))
  IN  IF k < f THEN SubSeq(s, k + 1, f) ELSE <<>>

(* Join with the empty separator: join(""). *)
RECURSIVE JoinNoSeparator(_)
JoinNoSeparator(segs) ==
  IF segs = <<>> THEN <<>> ELSE segs[1] \o JoinNoSeparator(Tail(segs))

(* Array.prototype.join("/") on an array of strings. *)
RECURSIVE Join(_)
Join(segs) ==
  IF segs = <<>> THEN <<>>
  ELSE IF Len(segs) = 1 THEN segs[1]
  ELSE segs[1] \o <<"/">> \o Join(Tail(segs))

(* String.prototype.split("/"). *)
RECURSIVE Split(_)
Split(s) ==
  IF \A i \in 1..Len(s) : s[i] # "/" THEN <<s>>
  ELSE LET k == CHOOSE i \in 1..Len(s) :
                  s[i] = "/" /\ \A j \in 1..(i - 1) : s[j] # "/"
       IN  <<SubSeq(s, 1, k - 1)>> \o Split(SubSeq(s, k + 1, Len(s)))

----------------------------------------------------------------------------
(* The Post type and the stores the model loads. *)

Post(i, slugAsParams, date, published, tags) ==
  [title |-> i, description |-> i, body |-> i,
   slugAsParams |-> slugAsParams, date |-> date,
   published |-> published, tags |-> tags]

(* Timestamp ranks the dates of the loaded documents take. *)
Dates == {1, 2}

DigitChar == <<"1", "2", "3", "4", "5", "6", "7", "8", "9">>

(* The path of the i-th document when paths are not varied. *)
DefaultSlug(i) == <<"p", DigitChar[i]>>

Slugs == {<<"a">>, <<"a", "/", "b">>}

LabelJS == <<"J", "S">>

Labeljs == <<"j", "s">>

Label7 == <<"7">>

LabelConstructor == <<"c", "o", "n", "s", "t", "r", "u", "c", "t", "o", "r">>

Labels == {LabelJS, Labeljs, Label7, LabelConstructor}

SeqsUpTo(S, n) == UNION {[1..k -> S] : k \in 0..n}

(* tags is optional: absent, or a list of labels *)
TagLists == {None} \cup {Some(l) : l \in SeqsUpTo(Labels, MaxTags)}

DefaultTags == Some(<<LabelJS>>)

(* Stores that vary path, date and published flag. *)
ResolverStores ==
  UNION {{[i \in 1..n |-> Post(i, sl[i], d[i], pb[i], DefaultTags)] :
            sl \in [1..n -> Slugs], d \in [1..n -> Dates],
            pb \in [1..n -> BOOLEAN]} : n \in 0..MaxPosts}

(* The dates of a store of n documents, by load position. *)
DateOrders == {"ascending", "descending", "alternating", "equal"}

DateAt(order, n, i) ==
  CASE order = "ascending" -> i
    [] order = "descending" -> n + 1 - i
    [] order = "alternating" -> IF i % 2 = 1 THEN 1 ELSE 2
    [] order = "equal" -> 1

(* Stores of more than one page: the published flags vary freely, the dates *)
(* follow one of the orders above, and no document has tags.                *)
PageStores ==
  UNION {{[i \in 1..n |-> Post(i, DefaultSlug(i), DateAt(o, n, i), pb[i], None)] :
            o \in DateOrders, pb \in [1..n -> BOOLEAN]} :
         n \in 0..MaxPagePosts}

(* The characters of the labels handed to the slug normaliser: an upper-   *)
(* and a lower-case letter, a space, a hyphen and a punctuation mark.      *)
SlugAlphabet == {"A", "a", " ", "-", "!"}

SlugInputs == SeqsUpTo(SlugAlphabet, MaxLabelLen)

LabelAB == <<"A", " ", "b">>

TagSlugLabels == {LabelJS, LabelAB}

(* Tag slugs asked for: two that labels normalise to, two that are labels  *)
(* themselves and no slug of any label.                                    *)
TagSlugs == {Labeljs, <<"a", "-", "b">>, LabelJS, LabelAB}

(* Stores that vary only the tag lists, absent and empty ones included. *)
TagSlugStores ==
  UNION {{[i \in 1..n |-> Post(i, DefaultSlug(i), 1, TRUE, tg[i])] :
            tg \in [1..n -> {None} \cup {Some(l) : l \in SeqsUpTo(TagSlugLabels, MaxTags)}]} :
         n \in 0..MaxTagPosts}

Label10 == <<"1", "0">>

(* Labels of which two are canonical array indices. *)
IndexLabels == {LabelJS, Labeljs, Label7, Label10}

(* The sequences over S of at most n elements, none of them repeated. *)
DistinctSeqsUpTo(S, n) ==
  {q \in SeqsUpTo(S, n) : \A i, j \in 1..Len(q) : q[i] = q[j] => i = j}

IndexTagLists ==
  {None} \cup {Some(l) : l \in DistinctSeqsUpTo(IndexLabels, MaxTags)}

(* Stores of n posts that vary only the tag lists, over IndexLabels. *)
TagIndexStores(n) ==
  {[i \in 1..n |-> Post(i, DefaultSlug(i), 1, TRUE, tg[i])] :
     tg \in [1..n -> IndexTagLists]}

Counts == {1, 2, 3, 4}

(* Stores that vary the tag lists, the date and the published flag. *)
TagStores ==
  UNION {{[i \in 1..n |-> Post(i, DefaultSlug(i), d[i], pb[i], tg[i])] :
            d \in [1..n -> Dates], pb \in [1..n -> BOOLEAN],
            tg \in [1..n -> TagLists]} : n \in 0..MaxTagPosts}

----------------------------------------------------------------------------
(* src/lib/utils.ts *)

(* comparePosts with the two results exchanged: an ascending sort. *)
comparePostsAscending(a, b) ==
  IF a.date > b.date THEN 1 ELSE IF a.date < b.date THEN -1 ELSE 0

(* comparePosts without the equal case: a.date >= b.date ? -1 : 1. *)
comparePostsNoTie(a, b) ==
  IF a.date >= b.date THEN -1 ELSE 1

comparePosts(a, b) ==
  IF a.date > b.date THEN -1 ELSE IF a.date < b.date THEN 1 ELSE 0

(* An unstable sort: an element is placed before its equals. *)
RECURSIVE InsertPostBeforeEqual(_, _)
InsertPostBeforeEqual(s, p) ==
  IF s = <<>> THEN <<p>>
  ELSE IF comparePosts(p, Head(s)) <= 0 THEN <<p>> \o s
  ELSE <<Head(s)>> \o InsertPostBeforeEqual(Tail(s), p)

(* Array.prototype.sort is stable: an element is placed before the first   *)
(* element the comparator orders after it.                                 *)
RECURSIVE InsertPost(_, _)
InsertPost(s, p) ==
  IF s = <<>> THEN <<p>>
  ELSE IF comparePosts(p, Head(s)) < 0 THEN <<p>> \o s
  ELSE <<Head(s)>> \o InsertPost(Tail(s), p)

RECURSIVE sortPosts(_)
sortPosts(ps) ==
  IF ps = <<>> THEN <<>> ELSE InsertPost(sortPosts(Front(ps)), Last(ps))

(* const tags: Record<string, number> = {}: an object literal inherits the  *)
(* properties of Object.prototype, among them these.                       *)
LabelToString == <<"t", "o", "S", "t", "r", "i", "n", "g">>

ObjectPrototypeKeys == {LabelConstructor, LabelToString}

(* The values a property of `tags` can hold: a number, or the string that   *)
(* results from adding 1 to an inherited function (its source text followed *)
(* by n characters "1").                                                   *)
Num(k) == [t |-> "number", n |-> k]

Str(k) == [t |-> "string", n |-> k]

HasOwn(obj, key) == \E i \in 1..Len(obj) : obj[i].key = key

OwnIndex(obj, key) == CHOOSE i \in 1..Len(obj) : obj[i].key = key

(* (tags[tag] ?? 0) + 1 *)
Increment(obj, key) ==
  IF HasOwn(obj, key)
    THEN LET v == obj[OwnIndex(obj, key)].value
         IN  IF v.t = "number" THEN Num(v.n + 1) ELSE Str(v.n + 1)
  ELSE IF key \in ObjectPrototypeKeys THEN Str(1)
  ELSE Num(1)

(* Property order of an ordinary object: canonical array indices first, in *)
(* ascending numeric order, then the other keys in creation order.         *)
IsArrayIndex(key) == IsDigits(key) /\ (Len(key) = 1 \/ key[1] # "0")

RECURSIVE InsertKey(_, _)
InsertKey(obj, e) ==
  IF ~IsArrayIndex(e.key) THEN Append(obj, e)
  ELSE IF obj = <<>> THEN <<e>>
  ELSE IF ~IsArrayIndex(Head(obj).key) \/ DecVal(Head(obj).key) > DecVal(e.key)
    THEN <<e>> \o obj
  ELSE <<Head(obj)>> \o InsertKey(Tail(obj), e)

(* tags[tag] = value *)
SetProperty(obj, key, v) ==
  IF HasOwn(obj, key)
    THEN [obj EXCEPT ![OwnIndex(obj, key)].value = v]
  ELSE InsertKey(obj, [key |-> key, value |-> v])

RECURSIVE CountTagList(_, _)
CountTagList(obj, list) ==
  IF list = <<>> THEN obj
  ELSE CountTagList(SetProperty(obj, Head(list), Increment(obj, Head(list))),
                    Tail(list))

(* CountPosts visiting the posts from the last to the first. *)
RECURSIVE CountPostsReversed(_, _)
CountPostsReversed(obj, ps) ==
  IF ps = <<>> THEN obj
  ELSE CountPostsReversed(IF Last(ps).tags = None THEN obj
                          ELSE CountTagList(obj, Last(ps).tags[1]),
                          Front(ps))

RECURSIVE CountPosts(_, _)
CountPosts(obj, ps) ==
  IF ps = <<>> THEN obj
  ELSE CountPosts(IF Head(ps).tags = None THEN obj
                  ELSE CountTagList(obj, Head(ps).tags[1]),
                  Tail(ps))

getAllTags(ps) == CountPosts(<<>>, ps)

Keys(obj) == [i \in 1..Len(obj) |-> obj[i].key]

ValueOf(obj, key) == obj[OwnIndex(obj, key)].value

(* compareTags with the operands exchanged: tags[a] - tags[b]. *)
compareTagsAscending(obj, a, b) ==
  LET va == ValueOf(obj, a)
      vb == ValueOf(obj, b)
  IN  IF va.t = "number" /\ vb.t = "number" THEN va.n - vb.n ELSE 0

(* tags[b] - tags[a]; a string operand makes it NaN, which sort takes as 0 *)
compareTags(obj, a, b) ==
  LET va == ValueOf(obj, a)
      vb == ValueOf(obj, b)
  IN  IF va.t = "number" /\ vb.t = "number" THEN vb.n - va.n ELSE 0

(* ECMAScript's consistent comparator: when the comparator is not one, the *)
(* resulting order is implementation-defined.                              *)
ConsistentCompare(obj) ==
  LET K == Range(Keys(obj))
      c(a, b) == compareTags(obj, a, b)
  IN  \A a, b, x \in K :
        /\ (c(a, b) = 0 /\ c(b, x) = 0) => c(a, x) = 0
        /\ (c(a, b) < 0 /\ c(b, x) < 0) => c(a, x) < 0
        /\ (c(a, b) > 0 /\ c(b, x) > 0) => c(a, x) > 0
        /\ (c(a, b) = 0) => ((c(a, x) < 0) = (c(b, x) < 0))
        /\ (c(a, b) = 0) => ((c(x, a) < 0) = (c(x, b) < 0))

RECURSIVE InsertTag(_, _, _)
InsertTag(obj, s, k) ==
  IF s = <<>> THEN <<k>>
  ELSE IF compareTags(obj, k, Head(s)) < 0 THEN <<k>> \o s
  ELSE <<Head(s)>> \o InsertTag(obj, Tail(s), k)

RECURSIVE SortKeys(_, _)
SortKeys(obj, ks) ==
  IF ks = <<>> THEN <<>>
  ELSE InsertTag(obj, SortKeys(obj, Front(ks)), Last(ks))

(* A Record<string, number>: its keys assigned in the order of ks, the     *)
(* i-th with the count cs[i].                                              *)
RECURSIVE TagCountMapping(_, _)
TagCountMapping(ks, cs) ==
  IF ks = <<>> THEN <<>>
  ELSE SetProperty(TagCountMapping(Front(ks), Front(cs)), Last(ks), Num(Last(cs)))

TagCountMappings ==
  UNION {{TagCountMapping(ks, cs) : cs \in [1..Len(ks) -> Counts]} :
         ks \in DistinctSeqsUpTo(IndexLabels, MaxTags)}

KeyOrders(S) ==
  {p \in [1..Cardinality(S) -> S] : \A i, j \in DOMAIN p : p[i] = p[j] => i = j}

(* The set of arrays Object.keys(tags).sort(...) can return. *)
sortTagsByCount(obj) ==
  IF ConsistentCompare(obj) THEN {SortKeys(obj, Keys(obj))}
  ELSE KeyOrders(Range(Keys(obj)))

(* One call of sortTagsByCount on a tag-count mapping. *)
SortTagsCall(tags) ==
  \E sortedTags \in sortTagsByCount(tags) :
    /\ request' = [handler |-> "sortTagsByCount", tags |-> tags]
    /\ response' = [kind |-> "sortedTags", sortedTags |-> sortedTags]
    /\ UNCHANGED <<posts, occurrences, mobileNav>>

(* github-slugger, imported at src/lib/utils.ts:4.  Slug(value) lowercases *)
(* the value, removes every character that is not a letter, a digit, a     *)
(* hyphen, an underscore or a space, and writes a hyphen for each space.   *)
(* It is written Slug here: slug names the params.slug of the handlers.    *)
LowerCase == [c \in {"A", "B", "J", "S"} |->
                IF c = "A" THEN "a" ELSE IF c = "B" THEN "b"
                ELSE IF c = "J" THEN "j" ELSE "s"]

toLowerCase(value) ==
  [i \in 1..Len(value) |->
     IF value[i] \in DOMAIN LowerCase THEN LowerCase[value[i]] ELSE value[i]]

SpecialChars == {"!"}

IsKept(c) == c \notin SpecialChars

RECURSIVE ReplaceFirst(_, _, _)
ReplaceFirst(value, from, to) ==
  IF value = <<>> THEN <<>>
  ELSE IF Head(value) = from THEN <<to>> \o Tail(value)
  ELSE <<Head(value)>> \o ReplaceFirst(Tail(value), from, to)

ReplaceAll(value, from, to) ==
  [i \in 1..Len(value) |-> IF value[i] = from THEN to ELSE value[i]]

(* Slug with replace(" ", "-") in place of replace(/ /g, "-"). *)
SlugFirstSpaceOnly(value) ==
  ReplaceFirst(SelectSeq(toLowerCase(value), IsKept), " ", "-")

Slug(value) ==
  ReplaceAll(SelectSeq(toLowerCase(value), IsKept), " ", "-")

(* The slug method of one shared GithubSlugger instance: a slug handed out *)
(* before comes back with a numeric suffix.                                *)
sluggerCounting(occ, value) ==
  LET s == Slug(value)
  IN  IF s \in DOMAIN occ
      THEN [slug |-> s \o <<"-", "1">>, occurrences |-> occ]
      ELSE [slug |-> s, occurrences |-> occ @@ (s :> 0)]

(* import { slug } from "github-slugger": the function export, which reads *)
(* and writes no occurrence counters.                                      *)
slugger(occ, value) ==
  [slug |-> Slug(value), occurrences |-> occ]

(* post.tags.map((tag) => slug(tag)), the calls made in list order. *)
RECURSIVE SlugifyTags(_, _)
SlugifyTags(occ, tags) ==
  IF tags = <<>> THEN [slugs |-> <<>>, occurrences |-> occ]
  ELSE LET first == slugger(occ, Head(tags))
           rest == SlugifyTags(first.occurrences, Tail(tags))
       IN  [slugs |-> <<first.slug>> \o rest.slugs,
            occurrences |-> rest.occurrences]

(* getPostsByTagSlug comparing the labels themselves. *)
RECURSIVE getPostsByTagLabel(_, _, _)
getPostsByTagLabel(occ, ps, tag) ==
  IF ps = <<>> THEN [posts |-> <<>>, occurrences |-> occ]
  ELSE LET post == Head(ps)
           rest == getPostsByTagLabel(occ, Tail(ps), tag)
       IN  IF post.tags = None THEN rest
           ELSE [posts |-> (IF tag \in Range(post.tags[1])
                            THEN <<post>> ELSE <<>>) \o rest.posts,
                 occurrences |-> occ]

(* posts.filter: a post without tags is dropped, any other post is kept    *)
(* when its slugified tags include the tag.                                *)
RECURSIVE getPostsByTagSlug(_, _, _)
getPostsByTagSlug(occ, ps, tag) ==
  IF ps = <<>> THEN [posts |-> <<>>, occurrences |-> occ]
  ELSE LET post == Head(ps)
       IN  IF post.tags = None THEN getPostsByTagSlug(occ, Tail(ps), tag)
           ELSE LET slugifiedTags == SlugifyTags(occ, post.tags[1])
                    rest == getPostsByTagSlug(slugifiedTags.occurrences,
                                              Tail(ps), tag)
                IN  [posts |-> (IF tag \in Range(slugifiedTags.slugs)
                                THEN <<post>> ELSE <<>>) \o rest.posts,
                     occurrences |-> rest.occurrences]

(* One call of slug on a label. *)
SlugCall(value) ==
  LET r == slugger(occurrences, value)
  IN  /\ request' = [handler |-> "slug", value |-> value]
      /\ response' = [kind |-> "slug", slug |-> r.slug]
      /\ occurrences' = r.occurrences
      /\ UNCHANGED <<posts, mobileNav>>

(* The tag listing view: one call of getPostsByTagSlug on the store. *)
TagListing(tag) ==
  LET r == getPostsByTagSlug(occurrences, posts, tag)
  IN  /\ request' = [handler |-> "getPostsByTagSlug", tag |-> tag]
      /\ response' = [kind |-> "tagPosts", posts |-> r.posts]
      /\ occurrences' = r.occurrences
      /\ UNCHANGED <<posts, mobileNav>>

----------------------------------------------------------------------------
(* src/app/page.tsx *)

(* slice(0, 4) *)
LatestPostsFour(sorted) == Slice(sorted, 0, 4)

(* .slice(0, 5) *)
LatestPosts(sorted) == Slice(sorted, 0, 5)

(* Home sorting a copy: [...posts].sort(...) leaves the store as it was. *)
HomeSortingCopy ==
  /\ request' = [handler |-> "Home"]
  /\ response' = [kind |-> "home", latestPosts |-> LatestPosts(sortPosts(posts))]
  /\ UNCHANGED <<posts, occurrences, mobileNav>>

(* sortPosts(posts) sorts the shared array itself; slice copies from it. *)
Home ==
  LET sorted == sortPosts(posts)
  IN  /\ posts' = sorted
      /\ request' = [handler |-> "Home"]
      /\ response' = [kind |-> "home", latestPosts |-> LatestPosts(sorted)]
      /\ UNCHANGED <<occurrences, mobileNav>>

----------------------------------------------------------------------------
(* src/app/blog/page.tsx *)

POSTS_PER_PAGE == 5

(* Values of the `page` query parameter: absent, or a text. *)
PageQueries ==
  {None} \cup
  {Some(q) : q \in {<<>>, <<"a">>, <<"0">>, <<"1">>, <<"2">>, <<"3">>,
                    <<"-", "1">>}}

FewPageQueries == {None, Some(<<"2">>)}

(* Number(x): undefined and text that is not a numeric literal give NaN,   *)
(* the empty string gives 0.                                               *)
NaN == [nan |-> TRUE, val |-> 0]

Finite(k) == [nan |-> FALSE, val |-> k]

Number(x) ==
  IF x = None THEN NaN
  ELSE LET s == x[1]
       IN  IF s = <<>> THEN Finite(0)
           ELSE IF IsDigits(s) THEN Finite(DecVal(s))
           ELSE IF Head(s) = "-" /\ IsDigits(Tail(s)) THEN Finite(-DecVal(Tail(s)))
           ELSE NaN

(* CurrentPage without the `|| 1` default: NaN reaches slice, which takes  *)
(* it as 0.                                                                *)
CurrentPageNoDefault(page) ==
  LET n == Number(page)
  IN  IF n.nan THEN 0 ELSE n.val

(* Number(searchParams?.page) || 1: NaN and 0 are falsy *)
CurrentPage(page) ==
  LET n == Number(page)
  IN  IF n.nan \/ n.val = 0 THEN 1 ELSE n.val

IsPublished(post) == post.published

PublishedPosts(ps) == SelectSeq(ps, IsPublished)

(* TotalPages with Math.floor in place of Math.ceil. *)
TotalPagesFloor(length) == length \div POSTS_PER_PAGE

(* Math.ceil(length / POSTS_PER_PAGE) *)
TotalPages(length) == (length + POSTS_PER_PAGE - 1) \div POSTS_PER_PAGE

(* DisplayPosts with pages numbered from 0: slice(5 * p, 5 * (p + 1)). *)
DisplayPostsFromZero(sortedPosts, currentPage) ==
  Slice(sortedPosts, POSTS_PER_PAGE * currentPage,
        POSTS_PER_PAGE * (currentPage + 1))

(* DisplayPosts with an inclusive end index: pages overlap by one post. *)
DisplayPostsInclusive(sortedPosts, currentPage) ==
  Slice(sortedPosts, POSTS_PER_PAGE * (currentPage - 1),
        POSTS_PER_PAGE * currentPage + 1)

DisplayPosts(sortedPosts, currentPage) ==
  Slice(sortedPosts, POSTS_PER_PAGE * (currentPage - 1),
        POSTS_PER_PAGE * currentPage)

(* Placeholder with the test length > 1: a single post is not listed. *)
PlaceholderOffByOne(displayPosts) == ~(Len(displayPosts) > 1)

(* displayPosts?.length > 0 ? <ul> : <p>Nothing to see here yet</p> *)
Placeholder(displayPosts) == ~(Len(displayPosts) > 0)

BlogPage(page) ==
  LET currentPage == CurrentPage(page)
      sortedPosts == sortPosts(PublishedPosts(posts))
      totalPages == TotalPages(Len(sortedPosts))
      displayPosts == DisplayPosts(sortedPosts, currentPage)
      tags == getAllTags(posts)
  IN  \E sortedTags \in sortTagsByCount(tags) :
        /\ request' = [handler |-> "BlogPage", page |-> page]
        /\ response' = [kind |-> "blog",
                        displayPosts |-> displayPosts,
                        placeholder |-> Placeholder(displayPosts),
                        totalPages |-> totalPages,
                        tags |-> tags,
                        sortedTags |-> sortedTags]
        /\ UNCHANGED <<posts, occurrences, mobileNav>>

----------------------------------------------------------------------------
(* src/app/blog/[...slug]/page.tsx *)

(* Values of params.slug: absent, or a list of path segments. *)
SlugParams ==
  {None} \cup
  {Some(segs) : segs \in {<<>>, <<<<"a">>>>, <<<<"b">>>>, <<<<"a">>, <<"b">>>>,
                          <<<<"a", "/", "b">>>>}}

FewSlugParams == {Some(<<DefaultSlug(1)>>)}

(* getPostFromParams with findLast in place of find. *)
getPostFromParamsLast(ps, slug) ==
  IF slug = None THEN None
  ELSE LET key == Join(slug[1])
           hits == {i \in 1..Len(ps) : ps[i].slugAsParams = key}
       IN  IF hits = {} THEN None
           ELSE Some(ps[CHOOSE i \in hits : \A j \in hits : i >= j])

(* posts.find(post => post.slugAsParams === slug); slug is undefined when  *)
(* params.slug is, and then equals no string.                              *)
getPostFromParams(ps, slug) ==
  IF slug = None THEN None
  ELSE LET key == Join(slug[1])
           hits == {i \in 1..Len(ps) : ps[i].slugAsParams = key}
       IN  IF hits = {} THEN None
           ELSE Some(ps[CHOOSE i \in hits : \A j \in hits : i <= j])

Metadata(post) ==
  IF post = None THEN [title |-> None, description |-> None]
  ELSE [title |-> Some(post[1].title), description |-> Some(post[1].description)]

generateMetadata(slug) ==
  /\ request' = [handler |-> "generateMetadata", slug |-> slug]
  /\ response' = [kind |-> "metadata",
                  metadata |-> Metadata(getPostFromParams(posts, slug))]
  /\ UNCHANGED <<posts, occurrences, mobileNav>>

(* StaticParams over the published posts only. *)
StaticParamsPublished(ps) ==
  LET pub == SelectSeq(ps, IsPublished)
  IN  [i \in 1..Len(pub) |-> [slug |-> Split(pub[i].slugAsParams)]]

(* posts.map((post) => ({ slug: post.slugAsParams.split("/") })) *)
StaticParams(ps) ==
  [i \in 1..Len(ps) |-> [slug |-> Split(ps[i].slugAsParams)]]

generateStaticParams ==
  /\ request' = [handler |-> "generateStaticParams"]
  /\ response' = [kind |-> "staticParams", params |-> StaticParams(posts)]
  /\ UNCHANGED <<posts, occurrences, mobileNav>>

(* components with one more embeddable component. *)
componentsWithScript == {"Image", "Callout", "Script"}

(* src/components/mdx-components.tsx *)
components == {"Image", "Callout"}

(* Rendered without the published test: only a missing post is not found. *)
RenderedIfFound(post) ==
  IF post = None THEN [kind |-> "notFound"]
  ELSE [kind |-> "post",
        title |-> post[1].title,
        tags |-> post[1].tags,
        description |-> post[1].description,
        body |-> post[1].body,
        components |-> {"Image", "Callout"}]

(* if (!post || !post.published) notFound() *)
Rendered(post) ==
  IF post = None \/ ~post[1].published THEN [kind |-> "notFound"]
  ELSE [kind |-> "post",
        title |-> post[1].title,
        tags |-> post[1].tags,
        description |-> post[1].description,
        body |-> post[1].body,
        components |-> components]

PostPage(slug) ==
  /\ request' = [handler |-> "PostPage", slug |-> slug]
  /\ response' = Rendered(getPostFromParams(posts, slug))
  /\ UNCHANGED <<posts, occurrences, mobileNav>>

----------------------------------------------------------------------------
(* MobileNav and MobileLink (mobile-nav.tsx) *)

(* The MobileLink entries of the sheet and their hrefs. *)
MobileLinks == {"logo", "Home", "Blog", "About"}

Href(entry) ==
  CASE entry = "logo" -> "/"
    [] entry = "Home" -> "/"
    [] entry = "Blog" -> "/blog"
    [] entry = "About" -> "/about"

(* The plain Link entries, opened in a new tab. *)
ExternalLinks == {"GitHub", "Linkendin"}

(* <Sheet open={open} onOpenChange={setOpen}>: the trigger and a dismissal *)
(* report the new value of the flag.                                       *)
SheetOpenChange(open) ==
  /\ open # mobileNav.open
  /\ mobileNav' = [mobileNav EXCEPT !.open = open]
  /\ request' = [handler |-> "Sheet", open |-> open]
  /\ UNCHANGED <<posts, response, occurrences>>

(* MobileLink's onClick without the onOpenChange call. *)
MobileLinkClickStaysOpen(entry) ==
  /\ mobileNav.open
  /\ Len(mobileNav.pushed) < MaxPushes
  /\ mobileNav' = [mobileNav EXCEPT !.pushed = Append(@, Href(entry))]
  /\ request' = [handler |-> "MobileLink", entry |-> entry]
  /\ UNCHANGED <<posts, response, occurrences>>

(* onClick={() => { router.push(href.toString()); onOpenChange?.(false); }} *)
(* The entries are the content of the sheet, which exists while it is open. *)
MobileLinkClick(entry) ==
  /\ mobileNav.open
  /\ Len(mobileNav.pushed) < MaxPushes
  /\ mobileNav' = [open |-> FALSE, pushed |-> Append(mobileNav.pushed, Href(entry))]
  /\ request' = [handler |-> "MobileLink", entry |-> entry]
  /\ UNCHANGED <<posts, response, occurrences>>

(* <Link target="_blank" href={siteConfig.links...}>: no onClick. *)
ExternalLinkClick(entry) ==
  /\ mobileNav.open
  /\ request' = [handler |-> "Link", entry |-> entry]
  /\ UNCHANGED <<posts, response, occurrences, mobileNav>>

----------------------------------------------------------------------------
(* Specifications: the store is loaded once, then requests are served in   *)
(* any order.                                                              *)

Idle ==
  /\ request = [handler |-> "none"]
  /\ response = [kind |-> "none"]
  /\ occurrences = <<>>
  /\ mobileNav = [open |-> FALSE, pushed |-> <<>>]

Init == posts \in ResolverStores /\ Idle

InitPages == posts \in PageStores /\ Idle

InitTags == posts \in TagStores /\ Idle

InitSlug == posts = <<>> /\ Idle

InitTagSlug == posts \in TagSlugStores /\ Idle

NextSlug == \E value \in SlugInputs : SlugCall(value)

NextTagSlug ==
  \/ \E tag \in TagSlugs : TagListing(tag)
  \/ \E value \in TagSlugLabels : SlugCall(value)

InitSortTags == posts = <<>> /\ Idle

InitTagIndex == (\E n \in 0..MaxTagPosts : posts \in TagIndexStores(n)) /\ Idle

NextSortTags == \E tags \in TagCountMappings : SortTagsCall(tags)

NextTagIndex == \E page \in {None} : BlogPage(page)

InitNav == posts = <<>> /\ Idle

NextNav ==
  \/ \E open \in BOOLEAN : SheetOpenChange(open)
  \/ \E entry \in MobileLinks : MobileLinkClick(entry)
  \/ \E entry \in ExternalLinks : ExternalLinkClick(entry)

Next ==
  \/ Home
  \/ \E page \in FewPageQueries : BlogPage(page)
  \/ \E slug \in SlugParams : PostPage(slug)
  \/ \E slug \in SlugParams : generateMetadata(slug)
  \/ generateStaticParams

NextPages ==
  \/ Home
  \/ \E page \in PageQueries : BlogPage(page)
  \/ \E slug \in FewSlugParams : PostPage(slug)
  \/ \E slug \in FewSlugParams : generateMetadata(slug)
  \/ generateStaticParams

NextTags ==
  \/ Home
  \/ \E page \in FewPageQueries : BlogPage(page)
  \/ \E slug \in FewSlugParams : PostPage(slug)
  \/ \E slug \in FewSlugParams : generateMetadata(slug)
  \/ generateStaticParams

(* Stores of a few posts with varied paths, every path requested. *)
Spec == Init /\ [][Next]_vars

(* Stores of more than one page, every page query requested. *)
SpecPages == InitPages /\ [][NextPages]_vars

(* Stores with varied tag lists. *)
SpecTags == InitTags /\ [][NextTags]_vars

(* The slug normaliser alone, on every short label. *)
SpecSlug == InitSlug /\ [][NextSlug]_vars

(* Stores with varied tag lists, listed by tag slug. *)
SpecTagSlug == InitTagSlug /\ [][NextTagSlug]_vars

(* sortTagsByCount alone, on every small mapping of labels to counts. *)
SpecSortTags == InitSortTags /\ [][NextSortTags]_vars

(* Stores whose labels include array indices, listed. *)
SpecTagIndex == InitTagIndex /\ [][NextTagIndex]_vars

(* The mobile navigation sheet alone. *)
SpecNav == InitNav /\ [][NextNav]_vars

----------------------------------------------------------------------------
(* Properties. *)

PublishedIndices == {i \in 1..Len(posts) : posts[i].published}

PublishedCount == Cardinality(PublishedIndices)

NonIncreasingByDate(s) == \A i \in 1..(Len(s) - 1) : s[i].date >= s[i + 1].date

Occurrences(s, x) == Cardinality({i \in 1..Len(s) : s[i] = x})

(* the posts whose path is the requested segments joined with "/" *)
Matches(slug) ==
  IF slug = None THEN {}
  ELSE {i \in 1..Len(posts) : posts[i].slugAsParams = Join(slug[1])}

(* C1: no unpublished post is among the posts a public listing displays,   *)
(* neither on the /blog list page nor in the home page's latest posts.     *)
C1_NoUnpublishedListed ==
  /\ response.kind = "blog" =>
       \A i \in 1..Len(response.displayPosts) : response.displayPosts[i].published
  /\ response.kind = "home" =>
       \A i \in 1..Len(response.latestPosts) : response.latestPosts[i].published

(* C2: PostPage renders title, tags, description and body of the resolved  *)
(* post only when the resolver returns a post and it is published; in every *)
(* other case the result is notFound, with no post content.                *)
C2_PostPageRendersOnlyPublished ==
  request.handler = "PostPage" =>
    LET post == getPostFromParams(posts, request.slug)
    IN  IF post # None /\ post[1].published
          THEN /\ response.kind = "post"
               /\ response.title = post[1].title
               /\ response.tags = post[1].tags
               /\ response.description = post[1].description
               /\ response.body = post[1].body
               /\ \E i \in Matches(request.slug) :
                    posts[i].published /\ posts[i].title = response.title
          ELSE response = [kind |-> "notFound"]

(* C2 witness: the path of an unpublished post was requested and the page  *)
(* answered notFound.                                                      *)
C2_Witness ==
  /\ request.handler = "PostPage"
  /\ getPostFromParams(posts, request.slug) # None
  /\ ~getPostFromParams(posts, request.slug)[1].published
  /\ response.kind = "notFound"

(* C3: for an unpublished post, what a caller observes at its path is what *)
(* is observed at a path that matches no post: the page is notFound and the *)
(* metadata carries no title and no description.                           *)
C3_UnpublishedIndistinguishable ==
  (/\ request.handler \in {"PostPage", "generateMetadata"}
   /\ Matches(request.slug) # {}
   /\ \A i \in Matches(request.slug) : ~posts[i].published) =>
    /\ request.handler = "PostPage" => response = [kind |-> "notFound"]
    /\ request.handler = "generateMetadata" =>
         response.metadata = [title |-> None, description |-> None]

(* C4: no request handler modifies the shared list `posts`: it keeps the   *)
(* same elements in the same order.                                        *)
C4_StoreNeverModified == [][posts' = posts]_vars

(* C5: the output of sortPosts is non-increasing by date, and of two input *)
(* posts a and b with a.date > b.date, a comes before b in the output      *)
(* (Home sorts the store in place, so the output is the next store).       *)
C5_SortPostsDescending ==
  [][request'.handler = "Home" =>
       /\ NonIncreasingByDate(posts')
       /\ \A a, b \in Range(posts) :
            a.date > b.date =>
              \E i, j \in 1..Len(posts') :
                i < j /\ posts'[i] = a /\ posts'[j] = b]_vars

(* C5 witness: Home has sorted a store that was not loaded in that order   *)
(* (titles number the documents in load order).                            *)
C5_Witness ==
  /\ request.handler = "Home"
  /\ Len(posts) >= 3
  /\ \E i, j \in 1..Len(posts) : i < j /\ posts[i].title > posts[j].title
  /\ \E i, j \in 1..Len(posts) : posts[i].date # posts[j].date

RECURSIVE ConcatPages(_, _)
ConcatPages(sortedPosts, lastPage) ==
  IF lastPage <= 0 THEN <<>>
  ELSE ConcatPages(sortedPosts, lastPage - 1)
         \o DisplayPosts(sortedPosts, lastPage)

(* the least k with 5 * k >= m, that is ceil(m / 5) *)
CeilOfFifth(m) == CHOOSE k \in 0..m : 5 * k >= m /\ 5 * (k - 1) < m

(* C6: with page size 5 and M published posts, the slices displayed for    *)
(* pages 1..ceil(M/5), concatenated, are the sorted published list with    *)
(* every published post exactly once; every later page displays nothing;   *)
(* and the list page displays the slice of the page it was asked for.      *)
C6_PagesPartitionSortedList ==
  LET sortedPosts == sortPosts(PublishedPosts(posts))
      lastPage == CeilOfFifth(PublishedCount)
      all == ConcatPages(sortedPosts, lastPage)
  IN  /\ NonIncreasingByDate(all)
      /\ \A i \in 1..Len(posts) :
           Occurrences(all, posts[i]) = IF posts[i].published THEN 1 ELSE 0
      /\ Len(all) = PublishedCount
      /\ \A p \in (lastPage + 1)..(lastPage + 3) :
           DisplayPosts(sortedPosts, p) = <<>>
      /\ (response.kind = "blog" /\ request.page \in {Some(<<"1">>), Some(<<"2">>), Some(<<"3">>)}) =>
           response.displayPosts = DisplayPosts(sortedPosts, DecVal(request.page[1]))

(* C6 witness: page 2 of a store with more than five published posts was  *)
(* requested and shows the posts that page 1 does not.                     *)
C6_Witness ==
  /\ request.handler = "BlogPage"
  /\ request.page = Some(<<"2">>)
  /\ PublishedCount = 7
  /\ Len(response.displayPosts) = 2

(* the integer a page query denotes, if it is the text of an integer *)
IsIntegerText(q) ==
  q # None /\ (IsDigits(q[1]) \/ (q[1] # <<>> /\ Head(q[1]) = "-" /\ IsDigits(Tail(q[1]))))

IntegerOf(q) == IF Head(q[1]) = "-" THEN 0 - DecVal(Tail(q[1])) ELSE DecVal(q[1])

(* C7: for a requested page number p that is out of range (p < 1, or       *)
(* p > totalPages) the list page displays an empty slice.                  *)
C7_OutOfRangePageIsEmpty ==
  (/\ request.handler = "BlogPage"
   /\ IsIntegerText(request.page)
   /\ \/ IntegerOf(request.page) < 1
      \/ IntegerOf(request.page) > CeilOfFifth(PublishedCount)) =>
    response.displayPosts = <<>>

(* C8: a page query that is missing or is not numeric is answered as       *)
(* page = 1 is: the first five posts of the sorted published list and the  *)
(* same totalPages.                                                        *)
C8_InvalidPageIsFirstPage ==
  (request.handler = "BlogPage" /\ ~IsIntegerText(request.page)) =>
    /\ response.kind = "blog"
    /\ response.displayPosts =
         SubSeq(sortPosts(PublishedPosts(posts)), 1, Min(5, PublishedCount))
    /\ response.totalPages = CeilOfFifth(PublishedCount)

(* C8 witness: the query page=a was answered with the five newest of more  *)
(* than five published posts.                                              *)
C8_Witness ==
  /\ request.handler = "BlogPage"
  /\ request.page = Some(<<"a">>)
  /\ PublishedCount > 5
  /\ Len(response.displayPosts) = 5

(* C9: totalPages is ceil(P / 5), P the number of published posts of the   *)
(* store, and 0 when P = 0.                                                *)
C9_TotalPagesIsCeiling ==
  response.kind = "blog" =>
    /\ 5 * response.totalPages >= PublishedCount
    /\ 5 * (response.totalPages - 1) < PublishedCount
    /\ PublishedCount = 0 => response.totalPages = 0

(* C9 witness: six published posts and one unpublished give two pages. *)
C9_Witness ==
  /\ response.kind = "blog"
  /\ Len(posts) = 7
  /\ PublishedCount = 6
  /\ response.totalPages = 2

(* the labels of the store and the occurrences of a label *)
StoreLabels ==
  UNION {IF posts[i].tags = None THEN {} ELSE Range(posts[i].tags[1]) :
           i \in 1..Len(posts)}

LabelCount(t) ==
  Cardinality({pr \in (1..Len(posts)) \X (1..MaxTags) :
                 /\ posts[pr[1]].tags # None
                 /\ pr[2] <= Len(posts[pr[1]].tags[1])
                 /\ posts[pr[1]].tags[1][pr[2]] = t})

(* C10: getAllTags(posts)[t] is the number of (post, position) pairs at    *)
(* which t occurs; the keys are exactly the labels that occur, compared    *)
(* exactly, and every value is an integer >= 1.                            *)
C10_TagCountsAreOccurrences ==
  response.kind = "blog" =>
    /\ Range(Keys(response.tags)) = StoreLabels
    /\ \A i, j \in 1..Len(response.tags) :
         response.tags[i].key = response.tags[j].key => i = j
    /\ \A i \in 1..Len(response.tags) :
         /\ response.tags[i].value.t = "number"
         /\ response.tags[i].value.n >= 1
         /\ response.tags[i].value.n = LabelCount(response.tags[i].key)

(* C13: for every post P of the store, the segments generateStaticParams  *)
(* produces for P (P.slugAsParams split on "/") resolve, through            *)
(* getPostFromParams, to a post whose slugAsParams equals P.slugAsParams.   *)
C13_StaticParamsResolve ==
  response.kind = "staticParams" =>
    /\ Len(response.params) = Len(posts)
    /\ \A k \in 1..Len(posts) :
         LET found == getPostFromParams(posts, Some(response.params[k].slug))
         IN  found # None /\ found[1].slugAsParams = posts[k].slugAsParams

(* C13 witness: the static params of a store with a two-segment path. *)
C13_Witness ==
  /\ response.kind = "staticParams"
  /\ \E k \in 1..Len(response.params) : Len(response.params[k].slug) = 2
  /\ \E k \in 1..Len(response.params) : Len(response.params[k].slug) = 1

(* C14: getPostFromParams joins the segments with "/" and returns the      *)
(* first post in store order whose slugAsParams is that key; it returns    *)
(* undefined exactly when no post has that slugAsParams, also when the     *)
(* segments are missing (generateMetadata shows which post was found).     *)
C14_ResolverReturnsFirstMatch ==
  request.handler = "generateMetadata" =>
    LET hits == Matches(request.slug)
    IN  /\ (response.metadata.title = None) <=> (hits = {})
        /\ request.slug = None => response.metadata.title = None
        /\ hits # {} =>
             \E i \in hits :
               /\ \A j \in hits : i <= j
               /\ response.metadata.title = Some(posts[i].title)

(* C14 witness: two posts share the requested path and the first was found. *)
C14_Witness ==
  /\ request.handler = "generateMetadata"
  /\ Cardinality(Matches(request.slug)) >= 2
  /\ Len(request.slug[1]) = 2
  /\ response.metadata.title # None

(* C15: generateStaticParams returns one entry per post of the store,      *)
(* published or not, in store order: the post's slugAsParams cut at every  *)
(* "/" (the segments hold no "/" and joined with "/" give slugAsParams).   *)
C15_StaticParamsCoverAllPosts ==
  response.kind = "staticParams" =>
    /\ Len(response.params) = Len(posts)
    /\ \A k \in 1..Len(posts) :
         LET segs == response.params[k].slug
         IN  /\ Len(segs) >= 1
             /\ \A i \in 1..Len(segs) : \A j \in 1..Len(segs[i]) : segs[i][j] # "/"
             /\ Join(segs) = posts[k].slugAsParams

(* C15 witness: static params of a store that holds an unpublished post. *)
C15_Witness ==
  /\ response.kind = "staticParams"
  /\ Len(response.params) = 3
  /\ PublishedCount = 1

(* C18: every render of a post body passes exactly the components Image    *)
(* and Callout, whatever the request and the post.                         *)
C18_ClosedComponentSet ==
  response.kind = "post" => response.components = {"Image", "Callout"}

(* C18 witness: a published post was rendered. *)
C18_Witness ==
  /\ request.handler = "PostPage"
  /\ response.kind = "post"
  /\ Len(posts) >= 2

(* C20: the list page shows the placeholder exactly when the slice for the *)
(* requested page is empty and the post list otherwise; in both cases the  *)
(* tag cloud (every label of the store) and the pagination control with    *)
(* totalPages are rendered.                                                *)
C20_EmptyPageIsDisplayable ==
  response.kind = "blog" =>
    /\ response.placeholder <=> (response.displayPosts = <<>>)
    /\ Range(response.sortedTags) = StoreLabels
    /\ Len(response.sortedTags) = Cardinality(StoreLabels)
    /\ response.totalPages = CeilOfFifth(PublishedCount)

(* C20 witness: page 2 of a one-page store: placeholder, tag cloud and     *)
(* totalPages = 1.                                                         *)
C20_Witness ==
  /\ request.handler = "BlogPage"
  /\ request.page = Some(<<"2">>)
  /\ response.placeholder
  /\ response.totalPages = 1
  /\ Len(response.sortedTags) >= 1

(* The posts that have a tag whose slug is s, in store order. *)
HasTagWithSlug(post, s) ==
  /\ post.tags # None
  /\ \E k \in 1..Len(post.tags[1]) : Slug(post.tags[1][k]) = s

PostsWithTagSlug(s) ==
  LET Has(post) == HasTagWithSlug(post, s) IN SelectSeq(posts, Has)

(* C12: getPostsByTagSlug(posts, s) returns exactly the posts with a tag t *)
(* such that slug(t) = s, in store order; a post whose tag list is absent  *)
(* or empty is never returned, and with no match the result is the empty   *)
(* list.                                                                   *)
C12_TagSlugSelectsMatchingPosts ==
  response.kind = "tagPosts" =>
    /\ response.posts = PostsWithTagSlug(request.tag)
    /\ \A k \in 1..Len(response.posts) :
         /\ response.posts[k].tags # None
         /\ response.posts[k].tags # Some(<<>>)
    /\ (\A i \in 1..Len(posts) : ~HasTagWithSlug(posts[i], request.tag))
         => response.posts = <<>>

(* A store with an untagged post, an empty tag list and a post labelled    *)
(* "A b", listed under "a-b".                                              *)
C12_Witness ==
  /\ response.kind = "tagPosts"
  /\ request.tag = <<"a", "-", "b">>
  /\ Len(posts) = 2
  /\ Len(response.posts) = 1
  /\ response.posts[1].tags = Some(<<LabelJS, LabelAB>>)
  /\ posts[1].tags \in {None, Some(<<>>)}

(* C16: slug is idempotent: the slug of a slug that a call returned is     *)
(* that slug.                                                              *)
C16_SlugIdempotent ==
  response.kind = "slug" => Slug(response.slug) = response.slug

(* A label with an upper-case letter, a space and a punctuation mark. *)
C16_Witness ==
  /\ response.kind = "slug"
  /\ request.value = <<"A", " ", "!">>
  /\ response.slug = <<"a", "-">>

(* C17: whatever was slugified before, a call of slug returns what the     *)
(* first call of a fresh process returns for that label, and a call of     *)
(* getPostsByTagSlug returns the posts it returns in a fresh process; no   *)
(* occurrence counter is kept.                                             *)
C17_SlugIsHistoryIndependent ==
  /\ occurrences = <<>>
  /\ response.kind = "slug" =>
       response.slug = slugger(<<>>, request.value).slug
  /\ response.kind = "tagPosts" =>
       response.posts = getPostsByTagSlug(<<>>, posts, request.tag).posts

(* A listing under "js" of two posts labelled "JS": the label is slugified  *)
(* more than once within the call.                                         *)
C17_Witness ==
  /\ response.kind = "tagPosts"
  /\ request.tag = Labeljs
  /\ Len(response.posts) = 2

(* The place of x in a sequence s without repetition that holds it. *)
PositionIn(s, x) == CHOOSE i \in 1..Len(s) : s[i] = x

(* C11: the output of sortTagsByCount is a permutation of the keys of the  *)
(* mapping (each key once, nothing else) and is non-increasing by count.   *)
C11_SortedTagsPermutationByCount ==
  response.kind = "sortedTags" =>
    LET tags == request.tags
        out == response.sortedTags
    IN  /\ Len(out) = Len(tags)
        /\ \A i \in 1..Len(tags) : Occurrences(out, tags[i].key) = 1
        /\ \A i, j \in 1..Len(out) :
             i < j => ValueOf(tags, out[i]).n >= ValueOf(tags, out[j]).n

(* A mapping whose last key has a larger count than its first key and is  *)
(* moved to the front.                                                     *)
C11_Witness ==
  /\ response.kind = "sortedTags"
  /\ Len(request.tags) >= 2
  /\ request.tags[1].value.n < request.tags[Len(request.tags)].value.n
  /\ response.sortedTags[1] = request.tags[Len(request.tags)].key

(* All tag occurrences of the store: posts in list order, tags in tag-list *)
(* order.                                                                  *)
RECURSIVE TagOccurrences(_)
TagOccurrences(ps) ==
  IF ps = <<>> THEN <<>>
  ELSE (IF Head(ps).tags = None THEN <<>> ELSE Head(ps).tags[1])
       \o TagOccurrences(Tail(ps))

FirstSeen(t) ==
  LET occ == TagOccurrences(posts)
  IN  CHOOSE i \in 1..Len(occ) : occ[i] = t /\ \A j \in 1..(i - 1) : occ[j] # t

(* C19 as stated: the keys of getAllTags(posts) enumerate in first-seen    *)
(* order, for every two labels of the store.                               *)
C19_KeysInFirstSeenOrder ==
  response.kind = "blog" =>
    LET keys == Keys(response.tags)
    IN  \A t, u \in StoreLabels :
          FirstSeen(t) < FirstSeen(u) =>
            /\ t \in Range(keys) /\ u \in Range(keys)
            /\ PositionIn(keys, t) < PositionIn(keys, u)

(* C19 amended: the keys that are canonical array indices come first, in   *)
(* ascending numeric order; the other keys follow in first-seen order.     *)
C19_IndexKeysThenFirstSeenOrder ==
  response.kind = "blog" =>
    LET keys == Keys(response.tags)
    IN  /\ Range(keys) = StoreLabels
        /\ \A t, u \in StoreLabels :
             LET before == PositionIn(keys, t) < PositionIn(keys, u)
             IN  /\ (IsArrayIndex(t) /\ ~IsArrayIndex(u)) => before
                 /\ (IsArrayIndex(t) /\ IsArrayIndex(u)
                      /\ DecVal(t) < DecVal(u)) => before
                 /\ (~IsArrayIndex(t) /\ ~IsArrayIndex(u)
                      /\ FirstSeen(t) < FirstSeen(u)) => before

(* Labels first seen in the order js, 10, JS, 7 and enumerated as          *)
(* 7, 10, js, JS.                                                          *)
C19_Witness ==
  /\ response.kind = "blog"
  /\ TagOccurrences(posts) = <<Labeljs, Label10, LabelJS, Label7>>
  /\ Keys(response.tags) = <<Label7, Label10, Labeljs, LabelJS>>

(* C30: the sheet starts closed; a step that activates a MobileLink entry  *)
(* requests a navigation to the entry's href and leaves the sheet closed;  *)
(* a step that activates an external link leaves the open flag (and the    *)
(* requested navigations) as they were.                                    *)
C30_MobileLinkClosesSheet ==
  /\ ~mobileNav.open
  /\ [][/\ request'.handler = "MobileLink" =>
            /\ mobileNav'.pushed = Append(mobileNav.pushed, Href(request'.entry))
            /\ ~mobileNav'.open
        /\ request'.handler = "Link" => mobileNav' = mobileNav]_vars

(* The sheet was opened twice and closed by the Home and the Blog entry. *)
C30_Witness ==
  /\ request.handler = "MobileLink"
  /\ request.entry = "Blog"
  /\ mobileNav = [open |-> FALSE, pushed |-> <<"/", "/blog">>]

(* C22: sortPosts is stable: two posts of equal date keep, in the output,  *)
(* the relative order they had in the input, both when Home sorts the      *)
(* store and when the list page sorts the published posts.                 *)
C22_SortPostsStable ==
  [][/\ request'.handler = "Home" =>
          \A i, j \in 1..Len(posts) :
            (i < j /\ posts[i].date = posts[j].date) =>
              PositionIn(posts', posts[i]) < PositionIn(posts', posts[j])
     /\ (request'.handler = "BlogPage" /\ request'.page = None) =>
          LET shown == response'.displayPosts
          IN  \A i, j \in 1..Len(shown) :
                (i < j /\ shown[i].date = shown[j].date) =>
                  PositionIn(posts, shown[i]) < PositionIn(posts, shown[j])]_vars

(* Home has sorted a store loaded with alternating dates: the documents    *)
(* 2 and 4, of equal date, lead in load order.                             *)
C22_Witness ==
  /\ request.handler = "Home"
  /\ Len(posts) = 7
  /\ posts[1].title = 2 /\ posts[2].title = 4
  /\ posts[1].date = posts[2].date

(* C26: sortPosts is idempotent: sorting the list that sortPosts returned  *)
(* (the store, once Home has sorted it) returns it in the same order.      *)
C26_SortPostsIdempotent ==
  request.handler = "Home" => sortPosts(posts) = posts

(* Home has sorted four documents of one date. *)
C26_Witness ==
  /\ request.handler = "Home"
  /\ Len(posts) = 4
  /\ \A i \in 1..4 : posts[i].date = posts[1].date /\ posts[i].title = i

(* C27: sortPosts returns a permutation of the list it is given, and that  *)
(* list itself: after Home's call the store holds every post it held,      *)
(* once, and is the list in the order returned (the latest posts are its   *)
(* first entries).                                                         *)
C27_SortPostsPermutesInPlace ==
  [][request'.handler = "Home" =>
       /\ Len(posts') = Len(posts)
       /\ \A i \in 1..Len(posts) : Occurrences(posts', posts[i]) = 1
       /\ NonIncreasingByDate(posts')
       /\ response'.latestPosts = SubSeq(posts', 1, Len(response'.latestPosts))]_vars

(* Home has sorted three documents loaded oldest first. *)
C27_Witness ==
  /\ request.handler = "Home"
  /\ Len(posts) = 3
  /\ posts[1].title = 3 /\ posts[3].title = 1
  /\ response.latestPosts = posts

(* C29: the home page shows min(5, number of posts) posts, the first ones  *)
(* of the sorted store, in non-increasing date order; no post left out is  *)
(* more recent than a post shown.                                          *)
C29_HomeShowsLatestFive ==
  response.kind = "home" =>
    LET shown == response.latestPosts
    IN  /\ Len(shown) = Min(5, Len(posts))
        /\ shown = SubSeq(sortPosts(posts), 1, Len(shown))
        /\ NonIncreasingByDate(shown)
        /\ \A i \in 1..Len(posts) :
             posts[i] \notin Range(shown) =>
               \A k \in 1..Len(shown) : shown[k].date >= posts[i].date

(* Seven documents of seven dates: five are shown, two older are not. *)
C29_Witness ==
  /\ response.kind = "home"
  /\ Len(posts) = 7
  /\ Len(response.latestPosts) = 5
  /\ response.latestPosts[5].date > posts[6].date

(* C23: for a page number p with 1 <= p <= totalPages the list page shows  *)
(* the elements of the sorted published list at the indices                *)
(* [5 * (p - 1), 5 * p), in that order: between 1 and 5 posts, and 5 on    *)
(* every page but the last.                                                *)
C23_PageSliceWithinRange ==
  (/\ request.handler = "BlogPage"
   /\ IsIntegerText(request.page)
   /\ IntegerOf(request.page) >= 1
   /\ IntegerOf(request.page) <= response.totalPages) =>
    LET p == IntegerOf(request.page)
        sorted == sortPosts(PublishedPosts(posts))
        shown == response.displayPosts
    IN  /\ Len(shown) = Min(5 * p, Len(sorted)) - 5 * (p - 1)
        /\ \A k \in 1..Len(shown) : shown[k] = sorted[5 * (p - 1) + k]
        /\ Len(shown) >= 1 /\ Len(shown) <= 5
        /\ p < response.totalPages => Len(shown) = 5

(* Page 1 of two pages: five of six published posts. *)
C23_Witness ==
  /\ request.handler = "BlogPage"
  /\ request.page = Some(<<"1">>)
  /\ response.totalPages = 2
  /\ PublishedCount = 6
  /\ Len(response.displayPosts) = 5

(* C21: the tag cloud of the list page shows every label of the store,    *)
(* whether its posts are published or not, once, and the count shown for   *)
(* it is its number of occurrences over all posts.                         *)
C21_CloudCountsAllPosts ==
  response.kind = "blog" =>
    \A t \in StoreLabels :
      /\ Occurrences(response.sortedTags, t) = 1
      /\ ValueOf(response.tags, t) = Num(LabelCount(t))

(* C28: a label that is the name of a property the result object inherits *)
(* is counted from zero like any other, and no label maps to a value that  *)
(* is not an integer.                                                      *)
C28_CountersStartFromZero ==
  response.kind = "blog" =>
    \A t \in StoreLabels :
      /\ ValueOf(response.tags, t).t = "number"
      /\ t \in ObjectPrototypeKeys => ValueOf(response.tags, t).n = LabelCount(t)

(* The store in the order in which it was loaded: the i-th loaded document *)
(* has title i.                                                            *)
LoadedStore ==
  [i \in 1..Len(posts) |-> CHOOSE p \in Range(posts) : p.title = i]

(* C24: the response of the list page is the one it gives on the store as  *)
(* loaded, whatever was served before: the same displayed posts, the same  *)
(* totalPages, the same tag counts and the same order of the tag cloud.    *)
C24_BlogPageIgnoresHistory ==
  response.kind = "blog" =>
    LET sortedPosts == sortPosts(PublishedPosts(LoadedStore))
        tags == getAllTags(LoadedStore)
    IN  /\ response.displayPosts = DisplayPosts(sortedPosts, CurrentPage(request.page))
        /\ response.totalPages = TotalPages(Len(sortedPosts))
        /\ Range(response.tags) = Range(tags)
        /\ response.sortedTags \in sortTagsByCount(tags)

(* C25: getPostFromParams and PostPage answer a path as they do on the     *)
(* store as loaded, whatever was served before.                            *)
C25_ResolutionIgnoresHistory ==
  /\ request.handler = "PostPage" =>
       response = Rendered(getPostFromParams(LoadedStore, request.slug))
  /\ request.handler = "generateMetadata" =>
       response.metadata = Metadata(getPostFromParams(LoadedStore, request.slug))

====
